---- MODULE Spec2Model ----
(***************************************************************************)
(* DeepLink QR: the link registry (create_link), the smart redirect        *)
(* endpoint (redirect_link), its background analytics task (record_scan)   *)
(* and the analytics queries, over the two tables of database.py.          *)
(***************************************************************************)
EXTENDS Integers, Sequences, FiniteSets, TLC

\* Number of GET /r/{link_id} requests of a behaviour; request r is the r-th to arrive.
MaxRequests == 2

Req == 1..MaxRequests

\* Number of GET /r/{link_id} requests followed beside the registry and the
\* analytics queries.
MaxApiRequests == 1

\* Longest scan_events table drawn row by row for the analytics queries.
MaxSeedEvents == 4

\* scans[-50:] of get_analytics_api.
RecentLimit == 50

\* scans[-10:] of analytics_dashboard.
DashboardLimit == 10

\* Python's None (an absent header, an unset column, an omitted optional field).
NULL == "NULL"

-----------------------------------------------------------------------------
(* Inputs *)

\* The first 8 characters of a uuid4, as create_link draws them.
LinkIds == {"1b9d6bcd", "7c9e6679"}

LinkIdA == "1b9d6bcd"

LinkIdB == "7c9e6679"

\* Bodies of POST /api/links.
PayloadApp ==
    [app_scheme |-> "myapp", app_package |-> "com.example.myapp",
     fallback_url |-> "https://example.com/get", custom_path |-> "open/42",
     title |-> "My App"]

PayloadShop ==
    [app_scheme |-> "shop", app_package |-> "com.example.shop",
     fallback_url |-> "http://shop.example/install", custom_path |-> NULL,
     title |-> NULL]

PayloadBadUrl ==
    [app_scheme |-> "myapp", app_package |-> "com.example.myapp",
     fallback_url |-> "not a url", custom_path |-> NULL, title |-> NULL]

Payloads == {PayloadApp, PayloadShop, PayloadBadUrl}

\* A body whose fallback_url names a host and no path.
PayloadBareHost ==
    [app_scheme |-> "notes", app_package |-> "com.example.notes",
     fallback_url |-> "https://notes.example", custom_path |-> NULL, title |-> NULL]

\* str(request.base_url) of the server.
BaseUrls == {"https://qr.example/"}

\* User-agent header values: one per combination of OS family and is_mobile,
\* then the empty and a malformed one.
UA_ANDROID_PHONE ==
    "Mozilla/5.0 (Linux; Android 13; Pixel 7) AppleWebKit/537.36 (KHTML, like Gecko) Chrome/116.0.0.0 Mobile Safari/537.36"

UA_ANDROID_TABLET ==
    "Mozilla/5.0 (Linux; Android 12; SM-X906C) AppleWebKit/537.36 (KHTML, like Gecko) Chrome/116.0.0.0 Safari/537.36"

UA_IPHONE ==
    "Mozilla/5.0 (iPhone; CPU iPhone OS 16_6 like Mac OS X) AppleWebKit/605.1.15 (KHTML, like Gecko) Version/16.6 Mobile/15E148 Safari/604.1"

UA_IPAD ==
    "Mozilla/5.0 (iPad; CPU OS 16_6 like Mac OS X) AppleWebKit/605.1.15 (KHTML, like Gecko) Version/16.6 Mobile/15E148 Safari/604.1"

UA_WINDOWS_PHONE ==
    "Mozilla/5.0 (compatible; MSIE 10.0; Windows Phone 8.0; Trident/6.0; IEMobile/10.0; ARM; Touch; NOKIA; Lumia 920)"

UA_WINDOWS_DESKTOP ==
    "Mozilla/5.0 (Windows NT 10.0; Win64; x64) AppleWebKit/537.36 (KHTML, like Gecko) Chrome/116.0.0.0 Safari/537.36"

UA_EMPTY == ""

UA_MALFORMED == "%%%((;;"

UserAgents ==
    {UA_ANDROID_PHONE, UA_ANDROID_TABLET, UA_IPHONE, UA_IPAD, UA_WINDOWS_PHONE,
     UA_WINDOWS_DESKTOP, UA_EMPTY, UA_MALFORMED}

\* The headers of a request that the handler reads; NULL is a header not sent.
Headers ==
    [user_agent : UserAgents \cup {NULL}, referer : {NULL}]
        \cup {[user_agent |-> UA_ANDROID_PHONE, referer |-> "https://news.example/post"]}

\* request.client.host of the r-th request.
ClientHost(r) == IF r % 2 = 1 THEN "203.0.113.7" ELSE "198.51.100.23"

\* datetime.utcnow() when the record task of the r-th request runs, as the
\* second of a fixed minute.
UtcNow(r) == 10 * r

-----------------------------------------------------------------------------
(* State *)

VARIABLES
    links,             \* table "links": a set of Link rows
    scan_events,       \* table "scan_events": the ScanEvent rows in insertion order
    request,           \* request[r]: the inputs of request r, NoRequest before it arrives
    response,          \* response[r]: what the handler of request r returned or raised
    background_tasks,  \* background_tasks[r]: the tasks request r added, in order
    task_status,       \* task_status[r]: how far the background task of request r got
    create_response,   \* the response of the last POST /api/links a client kept
    analytics_response \* the response of the last analytics query

vars == <<links, scan_events, request, response, background_tasks, task_status,
          create_response, analytics_response>>

\* The responses of the registry and analytics endpoints, as their clients see them.
client_vars == <<create_response, analytics_response>>

NoRequest == [link_id |-> NULL]

NoResponse == [kind |-> "none"]

NoLink == [id |-> NULL]

-----------------------------------------------------------------------------
(* database.py *)

\* A row of table "links".
Link(id, app_scheme, app_package, deep_link, fallback_url, title) ==
    [id |-> id, app_scheme |-> app_scheme, app_package |-> app_package,
     deep_link |-> deep_link, fallback_url |-> fallback_url, title |-> title]

\* A row of table "scan_events" as record_scan builds it: it passes no id, and
\* the id column has no default, so the row's id is None.
ScanEvent(link_id, user_agent, ip_address, referrer, device_type, timestamp) ==
    [id |-> NULL, link_id |-> link_id, user_agent |-> user_agent,
     ip_address |-> ip_address, referrer |-> referrer, device_type |-> device_type,
     timestamp |-> timestamp]

\* Column(String, primary_key=True): the key of a new row is not null and not
\* the key of a stored row; otherwise commit raises IntegrityError.
PrimaryKeyOk(stored_ids, row) == row.id # NULL /\ row.id \notin stored_ids

\* Variant of QueryLink: the query without its filter.
QueryLinkAll(rows, link_id) == rows

\* db.query(Link).filter(Link.id == link_id)
QueryLink(rows, link_id) == {l \in rows : l.id = link_id}

\* .first(): a matching row, None when there is none.
First(rows) == IF rows = {} THEN NoLink ELSE CHOOSE l \in rows : TRUE

\* The ids of the rows of scan_events.
ScanEventIds(rows) == {rows[i].id : i \in 1..Len(rows)}

-----------------------------------------------------------------------------
(* main.py: create_link *)

\* pydantic HttpUrl: an http or https scheme followed by a host.
IsHttpUrl(url) ==
    \/ Len(url) > 7 /\ SubSeq(url, 1, 7) = "http://"
    \/ Len(url) > 8 /\ SubSeq(url, 1, 8) = "https://"

\* Variant of DeepLink: the custom path left out.
DeepLinkSchemeOnly(app_scheme, custom_path) == app_scheme \o "://"

\* f"{link.app_scheme}://{link.custom_path or ''}"
DeepLink(app_scheme, custom_path) ==
    app_scheme \o "://" \o (IF custom_path = NULL \/ custom_path = "" THEN "" ELSE custom_path)

\* link.title or "Untitled Link"
TitleOrDefault(title) == IF title = NULL \/ title = "" THEN "Untitled Link" ELSE title

\* The length of the scheme and "//" of an http or https URL.
SchemeLen(url) == IF Len(url) > 8 /\ SubSeq(url, 1, 8) = "https://" THEN 8 ELSE 7

\* The URL names a path after its host.
HasPath(url) == \E i \in (SchemeLen(url) + 1)..Len(url) : SubSeq(url, i, i) = "/"

\* str(link.fallback_url): the renderings of a validated HttpUrl. pydantic 1
\* keeps the text as submitted; pydantic 2 renders the parsed URL, which gives
\* a URL without a path the path "/". The source pins neither, so both are
\* outcomes of the build.
StrHttpUrl(url) == {url, IF HasPath(url) THEN url ELSE url \o "/"}

\* The row create_link builds for body `link`.
NewLink(link, link_id, fallback_url) ==
    Link(link_id, link.app_scheme, link.app_package,
         DeepLink(link.app_scheme, link.custom_path), fallback_url,
         TitleOrDefault(link.title))

\* Variant of CreateLinkRows: the body reaches the handler without the
\* validation of fallback_url.
CreateLinkRowsUnvalidated(rows, link, link_id, fallback_url) ==
    IF PrimaryKeyOk({l.id : l \in rows}, NewLink(link, link_id, fallback_url))
    THEN rows \cup {NewLink(link, link_id, fallback_url)}
    ELSE rows

\* Variant of CreateLinkRows: db.merge instead of db.add, so a row with the
\* id of a stored row replaces it.
CreateLinkRowsMerging(rows, link, link_id, fallback_url) ==
    IF IsHttpUrl(link.fallback_url)
    THEN {l \in rows : l.id # link_id} \cup {NewLink(link, link_id, fallback_url)}
    ELSE rows

\* Table "links" after create_link: a body whose fallback_url is no HttpUrl
\* is rejected before the handler runs; a link_id already stored makes
\* db.commit() raise, and nothing is stored.
CreateLinkRows(rows, link, link_id, fallback_url) ==
    IF /\ IsHttpUrl(link.fallback_url)
       /\ PrimaryKeyOk({l.id : l \in rows}, NewLink(link, link_id, fallback_url))
    THEN rows \cup {NewLink(link, link_id, fallback_url)}
    ELSE rows

\* s.rstrip('/')
RECURSIVE RStripSlash(_)
RStripSlash(s) ==
    IF Len(s) > 0 /\ SubSeq(s, Len(s), Len(s)) = "/"
    THEN RStripSlash(SubSeq(s, 1, Len(s) - 1))
    ELSE s

\* LinkResponse(...): the QR image is kept as the URL it encodes.
LinkResponse(link_id, base_url) ==
    LET redirect_url == RStripSlash(base_url) \o "/r/" \o link_id
    IN  [id |-> link_id, short_url |-> redirect_url,
         qr_code |-> [media_type |-> "data:image/png;base64", encodes |-> redirect_url],
         analytics_url |-> RStripSlash(base_url) \o "/analytics/" \o link_id]

\* The status and body the client of create_link gets: 422 from request
\* validation, 500 from the IntegrityError of db.commit(), else the LinkResponse.
CreateLinkResult(rows, link, link_id, base_url) ==
    IF ~IsHttpUrl(link.fallback_url)
    THEN [status_code |-> 422, body |-> NULL]
    ELSE IF ~PrimaryKeyOk({l.id : l \in rows}, NewLink(link, link_id, link.fallback_url))
    THEN [status_code |-> 500, body |-> NULL]
    ELSE [status_code |-> 200, body |-> LinkResponse(link_id, base_url)]

\* POST /api/links with body `link`; link_id is the uuid prefix drawn. The
\* response is not kept.
CreateLink(link, link_id) ==
    /\ \E fallback_url \in StrHttpUrl(link.fallback_url) :
            links' = CreateLinkRows(links, link, link_id, fallback_url)
    /\ UNCHANGED <<scan_events, request, response, background_tasks, task_status>>
    /\ UNCHANGED client_vars

\* POST /api/links, sent to base_url, by a client that keeps what it sent and
\* the response it got.
CreateLinkCall(link, link_id, base_url) ==
    /\ \E fallback_url \in StrHttpUrl(link.fallback_url) :
            links' = CreateLinkRows(links, link, link_id, fallback_url)
    /\ create_response' =
            [submitted |-> link, base_url |-> base_url,
             result |-> CreateLinkResult(links, link, link_id, base_url)]
    /\ UNCHANGED <<scan_events, request, response, background_tasks, task_status,
                   analytics_response>>

-----------------------------------------------------------------------------
(* main.py: redirect_link *)

\* request.headers.get(name, default)
HeaderGet(value, default) == IF value = NULL THEN default ELSE value

\* user_agents.parse: the OS family and the is_mobile flag of a user-agent
\* string. Tablets are not mobile; a string it cannot match is family Other.
Parse(user_agent_string) ==
    CASE user_agent_string = UA_ANDROID_PHONE -> [os_family |-> "Android", is_mobile |-> TRUE]
      [] user_agent_string = UA_ANDROID_TABLET -> [os_family |-> "Android", is_mobile |-> FALSE]
      [] user_agent_string = UA_IPHONE -> [os_family |-> "iOS", is_mobile |-> TRUE]
      [] user_agent_string = UA_IPAD -> [os_family |-> "iOS", is_mobile |-> FALSE]
      [] user_agent_string = UA_WINDOWS_PHONE -> [os_family |-> "Windows Phone", is_mobile |-> TRUE]
      [] user_agent_string = UA_WINDOWS_DESKTOP -> [os_family |-> "Windows", is_mobile |-> FALSE]
      [] OTHER -> [os_family |-> "Other", is_mobile |-> FALSE]

\* Variant of DeviceTypeOf: the default branch decided by is_mobile, the wrong
\* way round.
DeviceTypeOfSwapped(is_android, is_ios, is_mobile) ==
    IF is_android THEN "android"
    ELSE IF is_ios THEN "ios"
    ELSE IF is_mobile THEN "desktop" ELSE "mobile_other"

\* Variant of DeviceTypeOf: the four-way rule, with is_mobile deciding first,
\* while the response is still chosen on the OS family alone.
DeviceTypeOfFourWay(is_android, is_ios, is_mobile) ==
    IF ~is_mobile THEN "desktop"
    ELSE IF is_android THEN "android"
    ELSE IF is_ios THEN "ios"
    ELSE "mobile_other"

\* 'android' if is_android else ('ios' if is_ios else 'desktop')
DeviceTypeOf(is_android, is_ios, is_mobile) ==
    IF is_android THEN "android" ELSE IF is_ios THEN "ios" ELSE "desktop"

\* raise HTTPException(status_code=404, detail="Link not found")
NotFound == [kind |-> "error", status_code |-> 404, detail |-> "Link not found"]

\* templates.TemplateResponse("smart_redirect.html", {...})
SmartRedirectPage(link, is_android, is_ios) ==
    [kind |-> "html", template |-> "smart_redirect.html",
     context |-> [app_scheme |-> link.app_scheme, deep_link |-> link.deep_link,
                  fallback_url |-> link.fallback_url, app_package |-> link.app_package,
                  is_android |-> is_android, is_ios |-> is_ios]]

\* RedirectResponse(url=...)
RedirectResponse(url) == [kind |-> "redirect", url |-> url]

\* Variant of SelectStrategy: the iOS page only for mobile clients.
SelectStrategyMobileIos(link, is_android, is_ios, is_mobile) ==
    IF is_android THEN SmartRedirectPage(link, TRUE, FALSE)
    ELSE IF is_ios /\ is_mobile THEN SmartRedirectPage(link, FALSE, TRUE)
    ELSE RedirectResponse(link.fallback_url)

\* The three strategies of redirect_link, in the order the handler tries them.
SelectStrategy(link, is_android, is_ios, is_mobile) ==
    IF is_android THEN SmartRedirectPage(link, TRUE, FALSE)
    ELSE IF is_ios THEN SmartRedirectPage(link, FALSE, TRUE)
    ELSE RedirectResponse(link.fallback_url)

\* The arguments background_tasks.add_task(record_scan, ...) keeps.
RecordScanTask(link_id, user_agent, ip_address, referrer, device_type) ==
    [func |-> "record_scan", link_id |-> link_id, user_agent |-> user_agent,
     ip_address |-> ip_address, referrer |-> referrer, device_type |-> device_type]

\* Variant of RedirectLink: the record task is added before the link lookup.
RedirectLinkScheduleFirst(r, link_id, headers) ==
    /\ request[r] = NoRequest
    /\ IF r = 1 THEN TRUE ELSE request[r - 1] # NoRequest
    /\ request' = [request EXCEPT ![r] =
            [link_id |-> link_id, headers |-> headers, client_host |-> ClientHost(r)]]
    /\ LET link == First(QueryLink(links, link_id))
           user_agent_string == HeaderGet(headers.user_agent, "")
           user_agent == Parse(user_agent_string)
           is_android == user_agent.os_family = "Android"
           is_ios == user_agent.os_family = "iOS"
           is_mobile == user_agent.is_mobile
           task == RecordScanTask(link_id, user_agent_string, ClientHost(r),
                                  HeaderGet(headers.referer, NULL),
                                  DeviceTypeOf(is_android, is_ios, is_mobile))
       IN  /\ background_tasks' = [background_tasks EXCEPT ![r] = Append(@, task)]
           /\ task_status' = [task_status EXCEPT ![r] = "scheduled"]
           /\ response' = [response EXCEPT ![r] =
                    IF link = NoLink THEN NotFound
                    ELSE SelectStrategy(link, is_android, is_ios, is_mobile)]
    /\ UNCHANGED <<links, scan_events>>
    /\ UNCHANGED client_vars

\* Variant of RedirectLink: record_scan is called in the handler instead of
\* being added as a background task, so the write runs before the response.
RedirectLinkInline(r, link_id, headers) ==
    /\ request[r] = NoRequest
    /\ IF r = 1 THEN TRUE ELSE request[r - 1] # NoRequest
    /\ request' = [request EXCEPT ![r] =
            [link_id |-> link_id, headers |-> headers, client_host |-> ClientHost(r)]]
    /\ LET link == First(QueryLink(links, link_id))
       IN  IF link = NoLink
           THEN /\ response' = [response EXCEPT ![r] = NotFound]
                /\ UNCHANGED <<background_tasks, task_status, scan_events>>
           ELSE LET user_agent_string == HeaderGet(headers.user_agent, "")
                    user_agent == Parse(user_agent_string)
                    is_android == user_agent.os_family = "Android"
                    is_ios == user_agent.os_family = "iOS"
                    is_mobile == user_agent.is_mobile
                    task == RecordScanTask(link_id, user_agent_string, ClientHost(r),
                                           HeaderGet(headers.referer, NULL),
                                           DeviceTypeOf(is_android, is_ios, is_mobile))
                    event == ScanEvent(task.link_id, task.user_agent, task.ip_address,
                                       task.referrer, task.device_type, UtcNow(r))
                IN  /\ background_tasks' =
                            [background_tasks EXCEPT ![r] = Append(@, task)]
                    /\ IF PrimaryKeyOk(ScanEventIds(scan_events), event)
                       THEN /\ scan_events' = Append(scan_events, event)
                            /\ task_status' = [task_status EXCEPT ![r] = "done"]
                       ELSE /\ task_status' = [task_status EXCEPT ![r] = "failed"]
                            /\ UNCHANGED scan_events
                    /\ response' = [response EXCEPT ![r] =
                            SelectStrategy(link, is_android, is_ios, is_mobile)]
    /\ UNCHANGED links
    /\ UNCHANGED client_vars

\* GET /r/{link_id}, the r-th request, with the headers it carries.
RedirectLink(r, link_id, headers) ==
    /\ request[r] = NoRequest
    /\ IF r = 1 THEN TRUE ELSE request[r - 1] # NoRequest
    /\ request' = [request EXCEPT ![r] =
            [link_id |-> link_id, headers |-> headers, client_host |-> ClientHost(r)]]
    /\ LET link == First(QueryLink(links, link_id))
       IN  IF link = NoLink
           THEN /\ response' = [response EXCEPT ![r] = NotFound]
                /\ UNCHANGED <<background_tasks, task_status>>
           ELSE LET user_agent_string == HeaderGet(headers.user_agent, "")
                    user_agent == Parse(user_agent_string)
                    is_android == user_agent.os_family = "Android"
                    is_ios == user_agent.os_family = "iOS"
                    is_mobile == user_agent.is_mobile
                    task == RecordScanTask(link_id, user_agent_string, ClientHost(r),
                                           HeaderGet(headers.referer, NULL),
                                           DeviceTypeOf(is_android, is_ios, is_mobile))
                IN  /\ background_tasks' =
                            [background_tasks EXCEPT ![r] = Append(@, task)]
                    /\ task_status' = [task_status EXCEPT ![r] = "scheduled"]
                    /\ response' = [response EXCEPT ![r] =
                            SelectStrategy(link, is_android, is_ios, is_mobile)]
    /\ UNCHANGED <<links, scan_events>>
    /\ UNCHANGED client_vars

-----------------------------------------------------------------------------
(* main.py: record_scan *)

\* Variant of RecordScan: a failed write replaces the response of the request
\* by an internal server error.
RecordScanSurfacing(r, db_available) ==
    /\ task_status[r] = "scheduled"
    /\ LET task == background_tasks[r][1]
           event == ScanEvent(task.link_id, task.user_agent, task.ip_address,
                              task.referrer, task.device_type, UtcNow(r))
       IN  IF db_available /\ PrimaryKeyOk(ScanEventIds(scan_events), event)
           THEN /\ scan_events' = Append(scan_events, event)
                /\ task_status' = [task_status EXCEPT ![r] = "done"]
                /\ UNCHANGED response
           ELSE /\ task_status' = [task_status EXCEPT ![r] = "failed"]
                /\ response' = [response EXCEPT ![r] =
                        [kind |-> "error", status_code |-> 500,
                         detail |-> "Internal Server Error"]]
                /\ UNCHANGED scan_events
    /\ UNCHANGED <<links, request, background_tasks>>
    /\ UNCHANGED client_vars

\* Variant of RecordScan: the task keeps one row per link, overwriting the
\* latest row of the link instead of inserting a new one.
RecordScanOverwriting(r, db_available) ==
    /\ task_status[r] = "scheduled"
    /\ LET task == background_tasks[r][1]
           event == ScanEvent(task.link_id, task.user_agent, task.ip_address,
                              task.referrer, task.device_type, UtcNow(r))
           rows == {i \in 1..Len(scan_events) : scan_events[i].link_id = task.link_id}
           latest == CHOOSE i \in rows : \A j \in rows : j <= i
       IN  IF db_available /\ rows # {}
           THEN /\ scan_events' =
                        [scan_events EXCEPT ![latest] =
                            [event EXCEPT !.id = scan_events[latest].id]]
                /\ task_status' = [task_status EXCEPT ![r] = "done"]
           ELSE /\ task_status' = [task_status EXCEPT ![r] = "failed"]
                /\ UNCHANGED scan_events
    /\ UNCHANGED <<links, request, response, background_tasks>>
    /\ UNCHANGED client_vars

\* The background task of request r, run by the framework after the response
\* of r has been sent. db_available = FALSE is the store refusing the
\* transaction; a row the table rejects makes db.commit() raise as well. The
\* exception leaves record_scan (try/finally, no except) when the response is
\* already out, and the task ends "failed".
RecordScan(r, db_available) ==
    /\ task_status[r] = "scheduled"
    /\ LET task == background_tasks[r][1]
           event == ScanEvent(task.link_id, task.user_agent, task.ip_address,
                              task.referrer, task.device_type, UtcNow(r))
       IN  IF db_available /\ PrimaryKeyOk(ScanEventIds(scan_events), event)
           THEN /\ scan_events' = Append(scan_events, event)
                /\ task_status' = [task_status EXCEPT ![r] = "done"]
           ELSE /\ task_status' = [task_status EXCEPT ![r] = "failed"]
                /\ UNCHANGED scan_events
    /\ UNCHANGED <<links, request, response, background_tasks>>
    /\ UNCHANGED client_vars

-----------------------------------------------------------------------------
(* main.py: analytics_dashboard, get_analytics_api *)

\* Variant of QueryScanEvents: the query without its filter.
QueryScanEventsAll(rows, link_id) == rows

\* db.query(ScanEvent).filter(ScanEvent.link_id == link_id).all(): the rows of
\* the link in table order.
QueryScanEvents(rows, link_id) ==
    LET OfLink(s) == s.link_id = link_id
    IN  SelectSeq(rows, OfLink)

\* len([s for s in scans if s.device_type == device_type])
CountDevice(scans, device_type) ==
    Cardinality({i \in 1..Len(scans) : scans[i].device_type = device_type})

\* Variant of LastRows: scans[:n], the first n rows.
FirstRows(scans, n) == SubSeq(scans, 1, IF Len(scans) > n THEN n ELSE Len(scans))

\* scans[-n:]: the last n rows, all of them when there are no more than n.
LastRows(scans, n) ==
    SubSeq(scans, IF Len(scans) > n THEN Len(scans) - n + 1 ELSE 1, Len(scans))

\* s.timestamp.isoformat(), for a timestamp given as the second of the minute.
IsoFormat(timestamp) ==
    "2024-05-01T12:00:" \o (IF timestamp < 10 THEN "0" ELSE "") \o ToString(timestamp)

\* One entry of "scans" in the JSON of get_analytics_api.
ScanSummary(s) ==
    [timestamp |-> IsoFormat(s.timestamp), device_type |-> s.device_type,
     ip_address |-> s.ip_address]

\* Variant of AnalyticsJson: the statistics without the not-found check.
AnalyticsJsonUnchecked(link_rows, event_rows, link_id) ==
    LET scans == QueryScanEvents(event_rows, link_id)
        recent == LastRows(scans, RecentLimit)
    IN  [kind |-> "json", link_id |-> link_id, total_scans |-> Len(scans),
         by_device |-> [android |-> CountDevice(scans, "android"),
                        ios |-> CountDevice(scans, "ios"),
                        desktop |-> CountDevice(scans, "desktop")],
         scans |-> [i \in 1..Len(recent) |-> ScanSummary(recent[i])]]

\* What get_analytics_api returns or raises for link_id.
AnalyticsJson(link_rows, event_rows, link_id) ==
    LET link == First(QueryLink(link_rows, link_id))
    IN  IF link = NoLink THEN NotFound
        ELSE LET scans == QueryScanEvents(event_rows, link_id)
                 recent == LastRows(scans, RecentLimit)
             IN  [kind |-> "json", link_id |-> link_id, total_scans |-> Len(scans),
                  by_device |-> [android |-> CountDevice(scans, "android"),
                                 ios |-> CountDevice(scans, "ios"),
                                 desktop |-> CountDevice(scans, "desktop")],
                  scans |-> [i \in 1..Len(recent) |-> ScanSummary(recent[i])]]

\* What analytics_dashboard returns or raises for link_id.
AnalyticsPage(link_rows, event_rows, link_id) ==
    LET link == First(QueryLink(link_rows, link_id))
    IN  IF link = NoLink THEN NotFound
        ELSE LET scans == QueryScanEvents(event_rows, link_id)
             IN  [kind |-> "html", template |-> "analytics.html",
                  context |-> [link |-> link, total_scans |-> Len(scans),
                               android_scans |-> CountDevice(scans, "android"),
                               ios_scans |-> CountDevice(scans, "ios"),
                               desktop_scans |-> CountDevice(scans, "desktop"),
                               recent_scans |-> LastRows(scans, DashboardLimit)]]

\* GET /api/analytics/{link_id}
GetAnalyticsApi(link_id) ==
    /\ analytics_response' =
            [endpoint |-> "/api/analytics", link_id |-> link_id,
             result |-> AnalyticsJson(links, scan_events, link_id)]
    /\ UNCHANGED <<links, scan_events, request, response, background_tasks,
                   task_status, create_response>>

\* GET /analytics/{link_id}
AnalyticsDashboard(link_id) ==
    /\ analytics_response' =
            [endpoint |-> "/analytics", link_id |-> link_id,
             result |-> AnalyticsPage(links, scan_events, link_id)]
    /\ UNCHANGED <<links, scan_events, request, response, background_tasks,
                   task_status, create_response>>

-----------------------------------------------------------------------------
(* Specification *)

\* The ids a request may name; an id names no link until create_link has stored it.
RequestIds == LinkIds

Init ==
    /\ links = {}
    /\ scan_events = <<>>
    /\ request = [r \in Req |-> NoRequest]
    /\ response = [r \in Req |-> NoResponse]
    /\ background_tasks = [r \in Req |-> <<>>]
    /\ task_status = [r \in Req |-> "none"]
    /\ create_response = NoResponse
    /\ analytics_response = NoResponse

Next ==
    \/ \E link \in Payloads, link_id \in LinkIds : CreateLink(link, link_id)
    \/ \E r \in Req, link_id \in RequestIds, headers \in Headers :
            RedirectLink(r, link_id, headers)
    \/ \E r \in Req, db_available \in BOOLEAN : RecordScan(r, db_available)

Spec == Init /\ [][Next]_vars

\* The same program with the store always available to record_scan.
NextStoreUp ==
    \/ \E link \in Payloads, link_id \in LinkIds : CreateLink(link, link_id)
    \/ \E r \in Req, link_id \in RequestIds, headers \in Headers :
            RedirectLink(r, link_id, headers)
    \/ \E r \in Req : RecordScan(r, TRUE)

SpecStoreUp == Init /\ [][NextStoreUp]_vars

-----------------------------------------------------------------------------
(* The database file at startup *)

\* init_db creates the tables that are missing and keeps the rows of those
\* that exist: a process may start on a database file that holds links and
\* scan events. The rows below are such content; every row has its key, and
\* every event names a stored link and a device_type redirect_link computes.

SeedLinkApp == NewLink(PayloadApp, LinkIdA, PayloadApp.fallback_url)

SeedLinkShop == NewLink(PayloadShop, LinkIdB, PayloadShop.fallback_url)

\* The values of DeviceTypeOf.
DeviceTypes == {"android", "ios", "desktop"}

SeedUserAgent(device_type) ==
    CASE device_type = "android" -> UA_ANDROID_PHONE
      [] device_type = "ios" -> UA_IPHONE
      [] OTHER -> UA_WINDOWS_DESKTOP

\* The i-th row of a scan_events table, written at second i.
SeedEvent(i, link_id, device_type) ==
    [id |-> "ev-" \o ToString(i), link_id |-> link_id,
     user_agent |-> SeedUserAgent(device_type), ip_address |-> ClientHost(i),
     referrer |-> NULL, device_type |-> device_type, timestamp |-> i]

\* Every table of at most MaxSeedEvents rows over the two links and the
\* three device types.
ShortSeedTables ==
    UNION {{[i \in 1..n |-> SeedEvent(i, kind[i][1], kind[i][2])] :
                kind \in [1..n -> LinkIds \X DeviceTypes]} : n \in 0..MaxSeedEvents}

\* A table of n rows of link A, with one row of link B among them, the device
\* types in rotation from `phase`.
LongSeedTable(n, phase) ==
    [i \in 1..(n + 1) |->
        SeedEvent(i, IF i = 3 THEN LinkIdB ELSE LinkIdA,
                  <<"android", "ios", "desktop">>[((i + phase) % 3) + 1])]

\* Tables around the limit of the recent scans of get_analytics_api.
LongSeedTables ==
    {LongSeedTable(n, phase) : n \in (RecentLimit - 1)..(RecentLimit + 2), phase \in 0..2}

\* The ids an analytics query may name: the stored ones and one that is not.
QueryIds == LinkIds \cup {"00000000"}

\* The analytics queries over a database file that holds both links and a
\* table of scan events.
InitAnalytics ==
    /\ links = {SeedLinkApp, SeedLinkShop}
    /\ scan_events \in ShortSeedTables \cup LongSeedTables
    /\ request = [r \in Req |-> NoRequest]
    /\ response = [r \in Req |-> NoResponse]
    /\ background_tasks = [r \in Req |-> <<>>]
    /\ task_status = [r \in Req |-> "none"]
    /\ create_response = NoResponse
    /\ analytics_response = NoResponse

NextAnalytics ==
    \/ \E link_id \in QueryIds : GetAnalyticsApi(link_id)
    \/ \E link_id \in QueryIds : AnalyticsDashboard(link_id)

SpecAnalytics == InitAnalytics /\ [][NextAnalytics]_vars

\* The whole application: every endpoint and the background task, started on
\* an empty database file or on one that holds link A and two of its scans.
SeedTableApi == <<SeedEvent(1, LinkIdA, "android"), SeedEvent(2, LinkIdA, "ios")>>

PayloadsApi == {PayloadApp, PayloadBareHost, PayloadBadUrl}

HeadersApi ==
    {[user_agent |-> UA_ANDROID_PHONE, referer |-> "https://news.example/post"],
     [user_agent |-> UA_IPAD, referer |-> NULL],
     [user_agent |-> NULL, referer |-> NULL]}

InitApi ==
    /\ \/ links = {} /\ scan_events = <<>>
       \/ links = {SeedLinkApp} /\ scan_events = SeedTableApi
    /\ request = [r \in Req |-> NoRequest]
    /\ response = [r \in Req |-> NoResponse]
    /\ background_tasks = [r \in Req |-> <<>>]
    /\ task_status = [r \in Req |-> "none"]
    /\ create_response = NoResponse
    /\ analytics_response = NoResponse

NextApi ==
    \/ \E link \in PayloadsApi, link_id \in LinkIds, base_url \in BaseUrls :
            CreateLinkCall(link, link_id, base_url)
    \/ \E r \in 1..MaxApiRequests, link_id \in RequestIds, headers \in HeadersApi :
            RedirectLink(r, link_id, headers)
    \/ \E r \in Req, db_available \in BOOLEAN : RecordScan(r, db_available)
    \/ \E link_id \in QueryIds : GetAnalyticsApi(link_id)
    \/ \E link_id \in QueryIds : AnalyticsDashboard(link_id)

SpecApi == InitApi /\ [][NextApi]_vars

-----------------------------------------------------------------------------
(* Vocabulary of the properties *)

\* Request r has arrived and its handler has run.
Arrived(r) == request[r] # NoRequest

\* Request r found its link: the handler went past the lookup.
Served(r) == Arrived(r) /\ response[r] # NotFound

\* The row of table "links" whose id is link_id.
StoredLink(link_id) == CHOOSE l \in links : l.id = link_id

\* The link request r named.
LinkOfRequest(r) == StoredLink(request[r].link_id)

\* What the parser reports for the user-agent header of request r.
SignalsOf(r) == Parse(HeaderGet(request[r].headers.user_agent, ""))

\* The device class of request r by the four-way rule: OS family and is_mobile.
FourWayClass(r) ==
    LET ua == SignalsOf(r)
    IN  IF ~ua.is_mobile THEN "desktop"
        ELSE IF ua.os_family = "Android" THEN "android"
        ELSE IF ua.os_family = "iOS" THEN "ios"
        ELSE "mobile_other"

\* The device_type request r handed to the analytics recorder.
RecordedDeviceType(r) == background_tasks[r][1].device_type

\* The smart-redirect page carrying exactly the fields of link l.
IsSmartPageOf(resp, l) ==
    /\ resp.kind = "html"
    /\ resp.template = "smart_redirect.html"
    /\ resp.context.deep_link = l.deep_link
    /\ resp.context.app_package = l.app_package
    /\ resp.context.fallback_url = l.fallback_url

-----------------------------------------------------------------------------
(* Properties *)

\* C1: every request on an existing link whose client is classified as ios is
\* answered by an HTTP redirect to that link's deep_link.
C1_IosRedirectsToDeepLink ==
    \A r \in Req :
        (Served(r) /\ FourWayClass(r) = "ios" /\ RecordedDeviceType(r) = "ios")
            => response[r] = RedirectResponse(LinkOfRequest(r).deep_link)

\* C2: every request on an existing link whose client is classified as
\* android is answered by the smart-redirect page carrying the deep_link,
\* app_package and fallback_url stored for the requested link_id.
C2_AndroidGetsSmartPage ==
    \A r \in Req :
        (Served(r) /\ (RecordedDeviceType(r) = "android" \/ FourWayClass(r) = "android"))
            => \E l \in links : l.id = request[r].link_id /\ IsSmartPageOf(response[r], l)

\* C2 witness: two different links are stored and an android request on one
\* of them has been answered.
C2_Witness ==
    \E r \in Req :
        /\ Served(r)
        /\ FourWayClass(r) = "android"
        /\ response[r].kind = "html"
        /\ \E l \in links : l.id # request[r].link_id /\ l.deep_link # LinkOfRequest(r).deep_link

\* C3: every request on an existing link whose client is classified as
\* mobile_other or desktop is answered by an HTTP redirect to that link's
\* fallback_url.
C3_OthersRedirectToFallback ==
    \A r \in Req :
        (Served(r) /\ FourWayClass(r) \in {"mobile_other", "desktop"})
            => response[r] = RedirectResponse(LinkOfRequest(r).fallback_url)

\* C4: the device_type computed for a request and handed to the analytics
\* recorder follows the four-way rule over OS family and is_mobile.
C4_DeviceTypeFollowsFourWayRule ==
    \A r \in Req : Served(r) => RecordedDeviceType(r) = FourWayClass(r)

\* C5: once the background task of every request has run, each link has
\* exactly one ScanEvent per successful redirect request for it, carrying the
\* request's link_id and the device_type computed for the request.
C5_OneScanEventPerRedirect ==
    (\A r \in Req : task_status[r] # "scheduled") =>
        /\ \A r \in Req : Served(r) =>
                \E i \in 1..Len(scan_events) :
                    /\ scan_events[i].link_id = request[r].link_id
                    /\ scan_events[i].device_type = RecordedDeviceType(r)
        /\ \A id \in LinkIds :
                Cardinality({i \in 1..Len(scan_events) : scan_events[i].link_id = id})
                    = Cardinality({r \in Req : Served(r) /\ request[r].link_id = id})

\* C6: a request for an id that is not in the link store ends in 404 without
\* any classification or analytics work: no task is scheduled for it, then or
\* later, and the request leaves the ScanEvents as they are.
C6_UnknownIdFailsFast ==
    /\ [](\A r \in Req : response[r] = NotFound =>
                background_tasks[r] = <<>> /\ task_status[r] = "none")
    /\ [][\A r \in Req :
            (~Arrived(r) /\ Arrived(r)' /\ ~\E l \in links : l.id = request'[r].link_id)
                => /\ response'[r] = NotFound
                   /\ background_tasks' = background_tasks
                   /\ task_status' = task_status
                   /\ scan_events' = scan_events]_vars

\* C6 witness: a request has been answered 404 while another link is stored.
C6_Witness ==
    \E r \in Req : response[r] = NotFound /\ links # {}

\* The response is one of the strategies of the redirect endpoint.
IsStrategyResponse(resp) == resp.kind \in {"html", "redirect"}

\* C7: a failing analytics write is never surfaced to the redirect caller:
\* no step alters a response once it is chosen, a request whose write failed
\* still holds a successful response, and that response is the one a request
\* with the same link and headers holds whatever became of its own write.
C7_WriteFailureNotSurfaced ==
    /\ [][\A r \in Req : Arrived(r) => response'[r] = response[r]]_vars
    /\ [](\A r \in Req : task_status[r] = "failed" => IsStrategyResponse(response[r]))
    /\ [](\A r1, r2 \in Req :
            (Served(r1) /\ Served(r2) /\ request[r1].link_id = request[r2].link_id
                /\ request[r1].headers = request[r2].headers)
                => response[r1] = response[r2])

\* C7 witness: the write of one request has failed while the write of another
\* request with the same link and headers is still to run.
C7_Witness ==
    \E r1, r2 \in Req :
        /\ task_status[r1] = "failed"
        /\ task_status[r2] = "scheduled"
        /\ request[r1].link_id = request[r2].link_id
        /\ request[r1].headers = request[r2].headers
        /\ IsStrategyResponse(response[r1])

\* C8: the analytics write is decoupled from the response: the write of a
\* request runs only in a step after the one that chose its response and
\* leaves that response alone, every change of the ScanEvents is such a step,
\* and the response is there while the write is pending or has failed.
C8_WriteAfterResponse ==
    /\ [][\A r \in Req :
            (task_status'[r] # task_status[r] /\ task_status'[r] \in {"done", "failed"})
                => /\ IsStrategyResponse(response[r])
                   /\ response'[r] = response[r]]_vars
    /\ [][scan_events' # scan_events =>
            \E r \in Req : task_status[r] = "scheduled" /\ task_status'[r] = "done"]_vars
    /\ [](\A r \in Req :
            task_status[r] # "none" => IsStrategyResponse(response[r]))

\* C8 witness: a response has been returned while its write has not run.
C8_Witness ==
    \E r \in Req : IsStrategyResponse(response[r]) /\ task_status[r] = "scheduled"

\* The strategies a response is an instance of.
StrategiesOf(resp) ==
    {s \in {"android_smart_page", "ios_smart_page", "fallback_redirect"} :
        \/ s = "android_smart_page" /\ resp.kind = "html" /\ resp.context.is_android
        \/ s = "ios_smart_page" /\ resp.kind = "html" /\ resp.context.is_ios
        \/ s = "fallback_redirect" /\ resp.kind = "redirect"}

\* C9: strategy selection is total and deterministic: every request on an
\* existing link is answered by exactly one of the three strategies, and two
\* requests with the same link and the same computed device_type are answered
\* by the same strategy with the same target.
C9_SelectionTotalAndDeterministic ==
    /\ \A r \in Req : Served(r) =>
            /\ RecordedDeviceType(r) \in {"android", "ios", "desktop"}
            /\ Cardinality(StrategiesOf(response[r])) = 1
    /\ \A r1, r2 \in Req :
            (Served(r1) /\ Served(r2) /\ request[r1].link_id = request[r2].link_id
                /\ RecordedDeviceType(r1) = RecordedDeviceType(r2))
                => response[r1] = response[r2]

\* C9 witness: two requests with different user agents of the same device
\* type have been answered on the same link.
C9_Witness ==
    \E r1, r2 \in Req :
        /\ Served(r1) /\ Served(r2)
        /\ request[r1].link_id = request[r2].link_id
        /\ request[r1].headers.user_agent # request[r2].headers.user_agent
        /\ RecordedDeviceType(r1) = "ios" /\ RecordedDeviceType(r2) = "ios"

\* The user-agent header of request r is absent, empty or malformed.
NoUsableUserAgent(r) == request[r].headers.user_agent \in {NULL, UA_EMPTY, UA_MALFORMED}

\* C10: a request on an existing link with an empty, absent or malformed
\* user-agent header does not fail: it is classified desktop, answered by the
\* redirect to the link's fallback_url, and its scheduled record task carries
\* device_type desktop.
C10_NoUserAgentIsDesktop ==
    \A r \in Req :
        (Served(r) /\ NoUsableUserAgent(r))
            => /\ FourWayClass(r) = "desktop"
               /\ \E l \in links : /\ l.id = request[r].link_id
                                   /\ response[r] = RedirectResponse(l.fallback_url)
               /\ Len(background_tasks[r]) = 1
               /\ background_tasks[r][1].func = "record_scan"
               /\ background_tasks[r][1].device_type = "desktop"
               /\ background_tasks[r][1].user_agent
                    = (IF request[r].headers.user_agent = NULL THEN ""
                       ELSE request[r].headers.user_agent)

\* C10 witness: requests without a user-agent header and with an empty one
\* have both been answered on an existing link.
C10_Witness ==
    \E r1, r2 \in Req :
        /\ Served(r1) /\ Served(r2)
        /\ request[r1].headers.user_agent = NULL
        /\ request[r2].headers.user_agent \in {UA_EMPTY, UA_MALFORMED}
        /\ response[r1].kind = "redirect"

-----------------------------------------------------------------------------
(* Properties of the analytics queries *)

\* The positions of the rows of link_id in table scan_events.
EventsOf(link_id) == {i \in 1..Len(scan_events) : scan_events[i].link_id = link_id}

\* The position in scan_events of the j-th row of link_id.
NthEventOf(link_id, j) ==
    CHOOSE i \in EventsOf(link_id) : Cardinality({k \in EventsOf(link_id) : k <= i}) = j

\* The last analytics query was GET /api/analytics/{link_id}.
ApiQueried ==
    analytics_response # NoResponse /\ analytics_response.endpoint = "/api/analytics"

\* C11: for an existing link, GET /api/analytics/{id} reports as total the
\* number of stored ScanEvents with that link_id and, per device_type, the
\* number of those events with that device_type; events of other links are
\* not counted.
C11_AnalyticsCountsStoredEvents ==
    (ApiQueried /\ \E l \in links : l.id = analytics_response.link_id) =>
        LET id == analytics_response.link_id
            res == analytics_response.result
        IN  /\ res.kind = "json"
            /\ res.link_id = id
            /\ res.total_scans = Cardinality(EventsOf(id))
            /\ \A d \in DeviceTypes :
                    res.by_device[d] =
                        Cardinality({i \in EventsOf(id) : scan_events[i].device_type = d})

\* C11 witness: a link with two android events and one ios event, and an
\* event of another link in the table, reported as total=3, android=2, ios=1,
\* desktop=0.
C11_Witness ==
    /\ ApiQueried
    /\ analytics_response.result.kind = "json"
    /\ analytics_response.result.total_scans = 3
    /\ analytics_response.result.by_device = [android |-> 2, ios |-> 1, desktop |-> 0]
    /\ \E i \in 1..Len(scan_events) : scan_events[i].link_id # analytics_response.link_id

\* C12: an analytics query, of either endpoint, changes neither table, and
\* for an id that is not in the link store it ends in 404.
C12_AnalyticsReadOnly ==
    /\ [][analytics_response' # analytics_response =>
            links' = links /\ scan_events' = scan_events]_vars
    /\ [](analytics_response # NoResponse =>
            (analytics_response.result = NotFound
                <=> ~\E l \in links : l.id = analytics_response.link_id))

\* C12 witness: a dashboard query for an unknown id has ended in 404 over
\* tables that hold rows.
C12_Witness ==
    /\ analytics_response # NoResponse
    /\ analytics_response.result = NotFound
    /\ analytics_response.endpoint = "/analytics"
    /\ links # {} /\ Len(scan_events) > 0

\* C20: in the JSON of GET /api/analytics/{id} the by_device counts sum to
\* total_scans, and "scans" lists the last min(RecentLimit, total_scans)
\* events of the link in table order.
C20_CountsSumAndRecentScans ==
    (ApiQueried /\ analytics_response.result.kind = "json") =>
        LET id == analytics_response.link_id
            res == analytics_response.result
            total == Cardinality(EventsOf(id))
            shown == IF total < RecentLimit THEN total ELSE RecentLimit
        IN  /\ res.by_device.android + res.by_device.ios + res.by_device.desktop
                    = res.total_scans
            /\ res.total_scans = total
            /\ Len(res.scans) = shown
            /\ \A k \in 1..shown :
                    LET e == scan_events[NthEventOf(id, total - shown + k)]
                    IN  /\ res.scans[k].device_type = e.device_type
                        /\ res.scans[k].ip_address = e.ip_address
                        /\ res.scans[k].timestamp = IsoFormat(e.timestamp)

\* C20 witness: a link with more than RecentLimit events has been queried.
C20_Witness ==
    /\ ApiQueried
    /\ analytics_response.result.kind = "json"
    /\ analytics_response.result.total_scans > RecentLimit
    /\ Len(analytics_response.result.scans) = RecentLimit

-----------------------------------------------------------------------------
(* Properties of the stores *)

\* C13: the ScanEvent store is append-only: no create, redirect, record or
\* analytics step modifies or removes a stored ScanEvent; every row keeps its
\* place and its fields.
C13_ScanEventsAppendOnly ==
    [][/\ Len(scan_events') >= Len(scan_events)
       /\ \A i \in 1..Len(scan_events) : scan_events'[i] = scan_events[i]]_vars

\* C13 witness: over a table that holds scan events, a link has been created,
\* a redirect answered, its record task run and an analytics query answered.
C13_Witness ==
    /\ Len(scan_events) > 0
    /\ create_response # NoResponse /\ create_response.result.status_code = 200
    /\ \E r \in Req : Served(r) /\ task_status[r] \in {"done", "failed"}
    /\ analytics_response # NoResponse

\* C14: every stored ScanEvent names a stored Link, and so does every record
\* task: a task is only added after the link lookup succeeded, and no link
\* is ever removed.
C14_EventsReferenceStoredLinks ==
    /\ [](\A i \in 1..Len(scan_events) : \E l \in links : l.id = scan_events[i].link_id)
    /\ [](\A r \in Req : \A k \in 1..Len(background_tasks[r]) :
            \E l \in links : l.id = background_tasks[r][k].link_id)
    /\ [][\A l \in links : \E m \in links' : m.id = l.id]_vars

\* C14 witness: the table holds scan events of one link, and the record task
\* of a request on a second link, created since startup, has run.
C14_Witness ==
    /\ Len(scan_events) > 0
    /\ Cardinality(links) = 2
    /\ \E r \in Req :
            /\ Served(r)
            /\ task_status[r] \in {"done", "failed"}
            /\ \A i \in 1..Len(scan_events) : scan_events[i].link_id # request[r].link_id

\* A create step that a client observed.
CreateStep == create_response' # create_response

\* C16: POST /api/links with a fallback_url that is not a well-formed URL is
\* rejected (422) and leaves the link store unchanged; every stored Link has
\* a fallback_url that passed validation, and the store changes only in a
\* create whose fallback_url is well formed.
C16_InvalidUrlRejected ==
    /\ [](\A l \in links : IsHttpUrl(l.fallback_url))
    /\ [][(CreateStep /\ ~IsHttpUrl(create_response'.submitted.fallback_url))
            => /\ links' = links
               /\ create_response'.result.status_code = 422]_vars
    /\ [][links' # links => IsHttpUrl(create_response'.submitted.fallback_url)]_vars

\* C16 witness: a create with a malformed fallback_url has been rejected
\* while the store holds a link.
C16_Witness ==
    /\ create_response # NoResponse
    /\ ~IsHttpUrl(create_response.submitted.fallback_url)
    /\ create_response.result.status_code = 422
    /\ links # {}

\* C17: link ids stay unique and stored links immutable under any sequence
\* of creates: every stored row stays as it is, a create that succeeds
\* returns an id that was not stored before, and a create that fails at
\* commit (500) stores nothing.
C17_LinkIdsUniqueLinksImmutable ==
    /\ [](\A l1, l2 \in links : l1.id = l2.id => l1 = l2)
    /\ [][\A l \in links : l \in links']_vars
    /\ [][CreateStep =>
            LET res == create_response'.result
            IN  /\ res.status_code = 200 =>
                    /\ ~\E l \in links : l.id = res.body.id
                    /\ Cardinality(links') = Cardinality(links) + 1
                /\ res.status_code # 200 => links' = links]_vars

\* C17 witness: a create whose generated id collided with a stored one has
\* failed at commit, the stored link being the one of another body.
C17_Witness ==
    /\ create_response # NoResponse
    /\ create_response.result.status_code = 500
    /\ \E l \in links : l.app_scheme # create_response.submitted.app_scheme

\* The last create succeeded; its client holds the id of the new link.
Created == create_response # NoResponse /\ create_response.result.status_code = 200

\* s without the "/" it ends with, if it ends with one.
WithoutSlash(s) ==
    IF Len(s) > 0 /\ SubSeq(s, Len(s), Len(s)) = "/" THEN SubSeq(s, 1, Len(s) - 1) ELSE s

\* The parts of the round trip that do not concern fallback_url: the returned
\* id names a stored Link with the submitted app_scheme and app_package and
\* the deep_link app_scheme "://" custom_path, short_url is the base URL
\* followed by /r/{id}, and a later GET /r/{id} is not answered 404 and
\* carries the fallback_url of that link.
RoundTrip(l) ==
    LET sent == create_response.submitted
        body == create_response.result.body
    IN  /\ l.id = body.id
        /\ l.app_scheme = sent.app_scheme
        /\ l.app_package = sent.app_package
        /\ l.deep_link = sent.app_scheme \o "://"
                            \o (IF sent.custom_path = NULL THEN "" ELSE sent.custom_path)
        /\ body.short_url = WithoutSlash(create_response.base_url) \o "/r/" \o body.id

\* A redirect step that names the id the last create returned.
ResolvesCreated(r) ==
    /\ Created
    /\ ~Arrived(r) /\ Arrived(r)'
    /\ request'[r].link_id = create_response.result.body.id

\* The target response resp carries as fallback.
FallbackTarget(resp) ==
    IF resp.kind = "html" THEN resp.context.fallback_url
    ELSE IF resp.kind = "redirect" THEN resp.url
    ELSE NULL

\* C18 as stated: after a successful create, GET /r/{id} resolves to a Link
\* whose app_scheme, app_package and fallback_url are the submitted ones and
\* whose deep_link is app_scheme "://" custom_path, and short_url is the base
\* URL followed by /r/{id}.
C18_RoundTripAsSubmitted ==
    Created =>
        \E l \in links :
            /\ RoundTrip(l)
            /\ l.fallback_url = create_response.submitted.fallback_url

\* C18 amended: as C18, with fallback_url one of the renderings
\* str(HttpUrl) of the submitted URL: the submitted text, or that URL with
\* the path "/" when it was submitted without a path.
C18_RoundTripUpToRendering ==
    /\ [](Created =>
            \E l \in links :
                /\ RoundTrip(l)
                /\ l.fallback_url \in StrHttpUrl(create_response.submitted.fallback_url))
    /\ [][\A r \in 1..MaxApiRequests : ResolvesCreated(r) =>
            /\ response'[r] # NotFound
            /\ \E l \in links :
                    /\ l.id = request'[r].link_id
                    /\ FallbackTarget(response'[r]) = l.fallback_url
                    /\ l.fallback_url \in StrHttpUrl(create_response.submitted.fallback_url)]_vars

\* C18 witness: a link created from a body without custom_path has been
\* resolved by a later redirect request.
C18_Witness ==
    /\ Created
    /\ create_response.submitted.custom_path = NULL
    /\ \E r \in Req :
            /\ Served(r)
            /\ request[r].link_id = create_response.result.body.id
            /\ \E l \in links : l.id = request[r].link_id
                    /\ FallbackTarget(response[r]) = l.fallback_url

\* C19: within one redirect request the device_type handed to the recorder
\* agrees with the strategy served: android iff the android smart page, ios
\* iff the ios page, desktop iff the fallback redirect.
C19_DeviceTypeAgreesWithStrategy ==
    \A r \in Req : Served(r) =>
        LET device_type == RecordedDeviceType(r)
            resp == response[r]
        IN  /\ device_type = "android" <=> (resp.kind = "html" /\ resp.context.is_android)
            /\ device_type = "ios" <=> (resp.kind = "html" /\ resp.context.is_ios)
            /\ device_type = "desktop" <=> resp.kind = "redirect"

\* C19 witness: clients the parser does not call mobile, an Android tablet and
\* an iPad, have been served with android and ios recorded.
C19_Witness ==
    \E r1, r2 \in Req :
        /\ Served(r1) /\ Served(r2)
        /\ ~SignalsOf(r1).is_mobile /\ RecordedDeviceType(r1) = "android"
        /\ ~SignalsOf(r2).is_mobile /\ RecordedDeviceType(r2) = "ios"

\* The rows of scan_events that record request r.
EventsOfRequest(r) ==
    {i \in 1..Len(scan_events) :
        /\ scan_events[i].link_id = request[r].link_id
        /\ scan_events[i].user_agent = HeaderGet(request[r].headers.user_agent, "")
        /\ scan_events[i].ip_address = request[r].client_host
        /\ scan_events[i].device_type = RecordedDeviceType(r)
        /\ scan_events[i].timestamp = UtcNow(r)}

\* C15: under any interleaving of redirect requests and record tasks, the
\* response of each request is the strategy for its own link and user-agent,
\* and each successful request whose task has run has exactly one ScanEvent
\* of its own, every stored event being the event of one request.
C15_EachRequestItsOwnEvent ==
    /\ \A r \in Req : Served(r) =>
            \E l \in links :
                /\ l.id = request[r].link_id
                /\ FallbackTarget(response[r]) = l.fallback_url
    /\ \A r \in Req : (Served(r) /\ task_status[r] \in {"done", "failed"}) =>
            Cardinality(EventsOfRequest(r)) = 1
    /\ \A i \in 1..Len(scan_events) : \E r \in Req : Served(r) /\ i \in EventsOfRequest(r)

====
